---- MODULE Spec2Model ----
(***************************************************************************)
(* Text layout and cursor mapping of the todui input widget                *)
(* (src/src/widget.rs): tokenize_ascii, wrap_words, InputField::lines,    *)
(* InputField::get_cursor_at and the two setters, and of the App that      *)
(* edits the items (src/src/app.rs).                                       *)
(*                                                                         *)
(* A text is a sequence of characters, a character its Unicode code point  *)
(* (97 is 'a', 32 the blank, 10 the line feed).  Lengths and offsets of a  *)
(* str are in UTF-8 bytes (ByteLen); for the all-ASCII lines wrap_words    *)
(* works on they equal the numbers of characters.                          *)
(* Option<usize> is a sequence of length 0 (None) or 1 (Some(v)).          *)
(* A call that can panic returns a record with a `panicked` flag.          *)
(* Arithmetic overflow is build dependent (debug builds panic, release     *)
(* builds wrap): the operators take the build's `checks` flag and the      *)
(* actions choose it nondeterministically.                                 *)
(***************************************************************************)
EXTENDS Integers, Sequences, FiniteSets, TLC

\* ---------------------------------------------------------------- bounds
MaxLen == 3
MaxWidth == 3
MaxHeight == 3
MaxOrigin == 1
MaxPast == 2
MaxItems == 4
MaxInput == 1

\* ------------------------------------------------------------- constants
\* usize::MAX; TLC integers are 32 bits wide, so the largest of them stands
\* for it.  Only comparisons with lengths depend on it.
UsizeMax == 2147483647
\* 2^16, the modulus of u16 arithmetic
U16Mod == 65536
\* the size of the edit box: centered_area(f.area(), 40, 15)
EditBoxWidth == 40
EditBoxHeight == 15

None == <<>>
Some(v) == <<v>>

Min(a, b) == IF a <= b THEN a ELSE b

\* char::is_whitespace, the Unicode White_Space property: U+0009..U+000D,
\* U+0020, U+0085, U+00A0, U+1680, U+2000..U+200A, U+2028, U+2029, U+202F,
\* U+205F and U+3000
IsWhitespace(c) ==
    \/ c \in 9..13
    \/ c \in {32, 133, 160, 5760, 8232, 8233, 8239, 8287, 12288}
    \/ c \in 8192..8202

\* char::is_ascii: `*self as u32 <= 0x7F`
IsAscii(c) == c <= 127

\* char::len_utf8
Utf8Len(c) ==
    IF c < 128 THEN 1 ELSE IF c < 2048 THEN 2 ELSE IF c < 65536 THEN 3 ELSE 4

\* str::len: the number of UTF-8 bytes of a text
RECURSIVE ByteLen(_)
ByteLen(s) == IF s = <<>> THEN 0 ELSE Utf8Len(Head(s)) + ByteLen(Tail(s))

\* -------------------------------------------------------------- str::lines
\* split_inclusive('\n'): every piece but possibly the last ends with
\* the line feed (10)
RECURSIVE SplitInclusive(_, _, _)
SplitInclusive(s, i, cur) ==
    IF i > Len(s)
    THEN IF cur = <<>> THEN <<>> ELSE <<cur>>
    ELSE IF s[i] = 10
         THEN <<Append(cur, s[i])>> \o SplitInclusive(s, i + 1, <<>>)
         ELSE SplitInclusive(s, i + 1, Append(cur, s[i]))

\* a piece without its line ending: a line feed (10), or a carriage return
\* (13) and a line feed
StripLineEnding(l) ==
    IF Len(l) > 0 /\ l[Len(l)] = 10
    THEN LET m == SubSeq(l, 1, Len(l) - 1)
         IN IF Len(m) > 0 /\ m[Len(m)] = 13
            THEN SubSeq(m, 1, Len(m) - 1)
            ELSE m
    ELSE l

StrLines(s) ==
    LET pieces == SplitInclusive(s, 1, <<>>)
    IN [k \in 1..Len(pieces) |-> StripLineEnding(pieces[k])]

\* raw_line[a..b] for byte offsets a <= b (0-based, half open)
Slice(raw_line, a, b) == SubSeq(raw_line, a + 1, b)

\* ---------------------------------------------------------- tokenize_ascii
\* the loop over char_indices, from 0-based position i on
RECURSIVE TokenizeLoop(_, _, _, _, _)
TokenizeLoop(input, i, tokens, start, in_whitespace) ==
    IF i >= Len(input)
    THEN [panicked |-> FALSE,
          tokens |-> IF start < Len(input)
                     THEN Append(tokens, <<start, Len(input)>>)
                     ELSE tokens]
    ELSE LET c == input[i + 1]
         IN IF ~IsAscii(c)
            THEN [panicked |-> TRUE, tokens |-> <<>>]
            ELSE IF IsWhitespace(c) # in_whitespace
                 THEN TokenizeLoop(input, i + 1, Append(tokens, <<start, i>>),
                                   i, IsWhitespace(c))
                 ELSE TokenizeLoop(input, i + 1, tokens, start, in_whitespace)

\* tokenize_ascii that always assumes the line starts inside a word
tokenize_ascii_StartsInWord(input) ==
    TokenizeLoop(input, 0, <<>>, 0, FALSE)

tokenize_ascii(input) ==
    TokenizeLoop(input, 0, <<>>, 0,
                 IF Len(input) > 0 THEN IsWhitespace(input[1]) ELSE FALSE)

\* -------------------------------------------------------------- wrap_words
\* The locals of wrap_words while it walks one logical line: the lines
\* pushed so far, the pending span, and whether the function has returned
\* or panicked.
WrapState(result) ==
    [result |-> result, line_start |-> None, line_end |-> 0,
     current_len |-> 0, returned |-> FALSE, panicked |-> FALSE]

\* result.push(..) followed by `if result.len() >= height { return result; }`
PushChecked(st, line, height) ==
    LET pushed == Append(st.result, line)
    IN [st EXCEPT !.result = pushed, !.returned = Len(pushed) >= height]

\* FlushPending that leaves the last character of the pending span out
FlushPending_DropsLast(raw_line, st, height) ==
    IF st.line_start # None
    THEN PushChecked(st, Slice(raw_line, st.line_start[1], st.line_end - 1),
                     height)
    ELSE st

\* `if let Some(ls) = line_start { push; if result.len() >= height return }`
FlushPending(raw_line, st, height) ==
    IF st.line_start # None
    THEN PushChecked(st, Slice(raw_line, st.line_start[1], st.line_end), height)
    ELSE st

\* ChunkEnd with the chunk one character too long
ChunkEnd_TooLong(pos, width, end) == Min(pos + width + 1, end)

\* `usize::min(pos + width, end)`: where the chunk starting at pos ends
ChunkEnd(pos, width, end) == Min(pos + width, end)

\* FitsOnLine with a strict comparison
FitsOnLine_Strict(current_len, token_len, width) ==
    current_len + token_len < width

\* `current_len + token_len <= width`
FitsOnLine(current_len, token_len, width) == current_len + token_len <= width

\* `while pos < end { .. }`: the hard split of a token longer than a line
RECURSIVE ChunkLoop(_, _, _, _, _, _)
ChunkLoop(raw_line, st, pos, end, width, height) ==
    IF pos >= end
    THEN st
    ELSE LET chunk_end == ChunkEnd(pos, width, end)
             st1 == IF pos + width <= end
                    THEN [st EXCEPT
                            !.result = Append(st.result,
                                              Slice(raw_line, pos, chunk_end)),
                            !.line_start = None,
                            !.line_end = 0]
                    ELSE [st EXCEPT
                            !.line_start = Some(pos),
                            !.line_end = end,
                            !.current_len = end - pos]
         IN IF Len(st1.result) >= height
            THEN [st1 EXCEPT !.returned = TRUE]
            ELSE ChunkLoop(raw_line, st1, chunk_end, end, width, height)

\* the body of `for &(start, end) in &tokens`
TokenStep(raw_line, st, token, width, height, checks) ==
    LET start == token[1]
        end == token[2]
        token_len == end - start
        \* height - 1 in usize: underflows when height = 0
        height_m1 == IF height = 0 THEN UsizeMax ELSE height - 1
        last_line == Len(st.result) = height_m1
        fits_on_line == FitsOnLine(st.current_len, token_len, width)
    IN IF height = 0 /\ checks
       THEN [st EXCEPT !.panicked = TRUE]
       ELSE IF last_line /\ ~fits_on_line
       THEN LET ls == IF st.line_start # None THEN st.line_start[1] ELSE start
                e == Min(ls + width, end)
            IN [st EXCEPT !.result = Append(st.result, Slice(raw_line, ls, e)),
                          !.returned = TRUE]
       ELSE IF token_len > width
       THEN LET flushed == FlushPending(raw_line, st, height)
            IN IF flushed.returned
               THEN flushed
               ELSE ChunkLoop(raw_line, flushed, start, end, width, height)
       ELSE IF ~fits_on_line
       THEN LET flushed == FlushPending(raw_line, st, height)
            IN IF flushed.returned
               THEN flushed
               ELSE [flushed EXCEPT !.line_start = Some(start),
                                    !.line_end = end,
                                    !.current_len = token_len]
       ELSE [st EXCEPT
               !.line_start = IF st.line_start = None
                              THEN Some(start) ELSE st.line_start,
               !.line_end = end,
               !.current_len = st.current_len + token_len]

\* `for &(start, end) in &tokens`, from the k-th token on
RECURSIVE TokenLoop(_, _, _, _, _, _, _)
TokenLoop(raw_line, st, tokens, k, width, height, checks) ==
    IF k > Len(tokens) \/ st.returned \/ st.panicked
    THEN st
    ELSE TokenLoop(raw_line,
                   TokenStep(raw_line, st, tokens[k], width, height, checks),
                   tokens, k + 1, width, height, checks)

\* the body of `for raw_line in string.lines()`: tokenize, walk the tokens,
\* push the leftovers
WrapLine(raw_line, result, width, height, checks) ==
    LET tk == tokenize_ascii(raw_line)
    IN IF tk.panicked
       THEN [WrapState(result) EXCEPT !.panicked = TRUE]
       ELSE LET st == TokenLoop(raw_line, WrapState(result), tk.tokens, 1,
                                width, height, checks)
            IN IF st.returned \/ st.panicked \/ st.line_start = None
               THEN st
               ELSE [st EXCEPT
                       !.result = Append(st.result,
                                         Slice(raw_line, st.line_start[1],
                                               st.line_end))]

\* `for raw_line in string.lines()`, from the k-th logical line on
RECURSIVE LineLoop(_, _, _, _, _, _)
LineLoop(raw_lines, k, result, width, height, checks) ==
    IF k > Len(raw_lines)
    THEN [panicked |-> FALSE, lines |-> result]
    ELSE LET st == WrapLine(raw_lines[k], result, width, height, checks)
         IN IF st.panicked
            THEN [panicked |-> TRUE, lines |-> <<>>]
            ELSE IF st.returned
            THEN [panicked |-> FALSE, lines |-> st.result]
            ELSE LineLoop(raw_lines, k + 1, st.result, width, height, checks)

wrap_words(string, size, checks) ==
    LineLoop(StrLines(string), 1, <<>>, size[1], size[2], checks)

\* ------------------------------------------------------------- InputField
WrapModes == {"None", "Character", "Word"}

\* InputField::lines
lines(input, wrapping, area, checks) ==
    CASE wrapping = "None" -> [panicked |-> FALSE, lines |-> StrLines(input)]
      [] wrapping = "Character" -> [panicked |-> TRUE, lines |-> <<>>]
      [] wrapping = "Word" ->
            wrap_words(input, <<area.width, area.height>>, checks)

\* one u16 addition or subtraction whose exact result is v: a panic under
\* overflow checks when v is out of range, v wrapped otherwise
U16(v, checks) ==
    IF v \in 0..(U16Mod - 1)
    THEN [panicked |-> FALSE, v |-> v]
    ELSE IF checks
    THEN [panicked |-> TRUE, v |-> 0]
    ELSE [panicked |-> FALSE, v |-> v % U16Mod]

\* `a + b - 1` in u16, evaluated left to right
U16AddSubOne(a, b, checks) ==
    LET sum == U16(a + b, checks)
    IN IF sum.panicked THEN sum ELSE U16(sum.v - 1, checks)

\* the tuple (x, y) of two u16 results
Position(x, y) ==
    IF x.panicked \/ y.panicked
    THEN [panicked |-> TRUE, x |-> 0, y |-> 0]
    ELSE [panicked |-> FALSE, x |-> x.v, y |-> y.v]

\* `for line in lines { .. }` and the fallback after it
RECURSIVE CursorWalk(_, _, _, _, _, _)
CursorWalk(layout, k, index, y, area, checks) ==
    IF k > Len(layout)
    THEN Position(U16AddSubOne(area.x, area.width, checks),
                  U16AddSubOne(area.y, area.height, checks))
    ELSE IF index >= ByteLen(layout[k])
    THEN CursorWalk(layout, k + 1, index - ByteLen(layout[k]), y + 1, area,
                    checks)
    ELSE Position(U16(area.x + (index % U16Mod), checks),
                  U16(area.y + (y % U16Mod), checks))

\* ClampIndex without the clamp
ClampIndex_Unclamped(index, len) == index

\* `usize::min(index, self.input.len() - 1)`, for a non-empty input
ClampIndex(index, len) == Min(index, len - 1)

\* InputField::get_cursor_at
get_cursor_at(input, wrapping, area, index, checks) ==
    IF ByteLen(input) = 0
    THEN [panicked |-> FALSE, x |-> area.x, y |-> area.y]
    ELSE LET clamped == ClampIndex(index, ByteLen(input))
             layout == lines(input, wrapping, area, checks)
         IN IF layout.panicked
            THEN [panicked |-> TRUE, x |-> 0, y |-> 0]
            ELSE CursorWalk(layout.lines, 1, clamped, 0, area, checks)

\* ------------------------------------------------------------------ state
VARIABLES
    input,            \* InputField.input
    wrapping,         \* InputField.wrapping
    area,             \* the Rect the caller lays the field out in
    overflow_checks,  \* the build: TRUE panics on overflow, FALSE wraps
    pc,               \* the call made on the field since it was last set,
                      \* "new" before any
    raw_line,         \* the logical line handed to tokenize_ascii
    tokens,           \* what tokenize_ascii returned
    layout,           \* what InputField::lines returned
    index,            \* the offset handed to get_cursor_at
    cursor,           \* what get_cursor_at returned
    prev_cursor,      \* what it returned for the offset before, if asked
    token_k,          \* wrap_words: how many tokens of raw_line are consumed
    wrap_st,          \* wrap_words: its locals between two tokens
    items,            \* App.todo_list.items
    selected,         \* App.todo_list.state.selected
    editing_index,    \* App.editing_index
    view,             \* App.view
    app_input,        \* App.input: its value and its cursor
    cursor_pos,       \* App.cursor_pos, relative to the edit box's corner
    focus,            \* App.focus
    edit_mode,        \* App.edit_mode
    exit,             \* App.exit
    app_pc,           \* App::run: "draw" or "key" next, "done" after it
    app_panic         \* how App::run has panicked: "expect", "index" or
                      \* "char_boundary", and "none" while it has not

walkVars == <<token_k, wrap_st>>

appVars == <<items, selected, editing_index, view, app_input, cursor_pos,
             focus, edit_mode, exit, app_pc, app_panic>>

vars == <<input, wrapping, area, overflow_checks, pc, raw_line, tokens,
          layout, index, cursor, prev_cursor, walkVars, appVars>>

\* the characters bounded texts are built from: a word character ('a'), a
\* blank and the line feed
Alphabet == {97, 32, 10}

BoundedTexts == UNION {[1..n -> Alphabet] : n \in 0..MaxLen}

\* the text "A wrap occurs" and the rectangle of the test get_cursor_pos
TestText ==
    <<65, 32, 119, 114, 97, 112, 32, 111, 99, 99, 117, 114, 115>>
TestArea == [x |-> 1, y |-> 1, width |-> 5, height |-> 5]

\* " aaaa a", a text whose overlong token is an exact multiple of width 2
MultipleText == <<32, 97, 97, 97, 97, 32, 97>>

Texts == BoundedTexts \cup {TestText, MultipleText}

\* a rectangle whose far edges lie one past the largest u16
EdgeArea ==
    [x |-> U16Mod - 1, y |-> U16Mod - 1, width |-> 1, height |-> 1]

Areas ==
    {[x |-> o, y |-> o, width |-> w, height |-> h] :
        o \in 0..MaxOrigin, w \in 0..MaxWidth, h \in 0..MaxHeight}
    \cup {TestArea, EdgeArea}

\* the offsets a caller asks about: every offset into the text, MaxPast
\* offsets past its end, and usize::MAX
Offsets(text) == 0..(Len(text) - 1 + MaxPast) \cup {UsizeMax}

NoTokens == [panicked |-> FALSE, tokens |-> <<>>]
NoLayout == [panicked |-> FALSE, lines |-> <<>>]
NoCursor == [panicked |-> FALSE, x |-> 0, y |-> 0]

\* tui_input::Input: the value and the cursor, an index in characters
InputDefault == [value |-> <<>>, cursor |-> 0]

\* wrap_words not entered
WalkIdle == token_k = 0 /\ wrap_st = WrapState(<<>>)

\* the two items App::new starts with: "Get a list on the screen." and
\* "Get a list on the screen. 2", both with the info "Seems as though I
\* succeeded."
InitialItems ==
    << [status |-> "Todo",
        todo |->
          <<71, 101, 116, 32, 97, 32, 108, 105, 115, 116,
           32, 111, 110, 32, 116, 104, 101, 32, 115, 99,
           114, 101, 101, 110, 46>>,
        info |->
          <<83, 101, 101, 109, 115, 32, 97, 115, 32, 116,
           104, 111, 117, 103, 104, 32, 73, 32, 115, 117,
           99, 99, 101, 101, 100, 101, 100, 46>>],
       [status |-> "Todo",
        todo |->
          <<71, 101, 116, 32, 97, 32, 108, 105, 115, 116,
           32, 111, 110, 32, 116, 104, 101, 32, 115, 99,
           114, 101, 101, 110, 46, 32, 50>>,
        info |->
          <<83, 101, 101, 109, 115, 32, 97, 115, 32, 116,
           104, 111, 117, 103, 104, 32, 73, 32, 115, 117,
           99, 99, 101, 101, 100, 101, 100, 46>>] >>

\* the fields App::new sets
AppNew ==
    /\ exit = FALSE
    /\ view = "List"
    /\ app_input = InputDefault
    /\ cursor_pos = None
    /\ focus = None
    /\ edit_mode = None
    /\ editing_index = None
    /\ items = InitialItems
    /\ selected = None
    /\ app_panic = "none"

\* an App that is constructed and never run
AppIdle == AppNew /\ app_pc = "idle"

\* InputField::new(input, wrapping)
Init ==
    /\ input \in Texts
    /\ wrapping \in WrapModes
    /\ area \in Areas
    /\ overflow_checks \in BOOLEAN
    /\ pc = "new"
    /\ raw_line = <<>>
    /\ tokens = NoTokens
    /\ layout = NoLayout
    /\ index = 0
    /\ cursor = NoCursor
    /\ prev_cursor = None
    /\ WalkIdle
    /\ AppIdle

\* tokenize_ascii(raw_line) for one logical line of the input
Tokenize ==
    /\ pc = "new"
    /\ \E k \in 1..Len(StrLines(input)) :
          /\ raw_line' = StrLines(input)[k]
          /\ tokens' = tokenize_ascii(StrLines(input)[k])
    /\ pc' = "tokenize_ascii"
    /\ UNCHANGED <<input, wrapping, area, overflow_checks, layout, index,
                   cursor, prev_cursor>>
    /\ UNCHANGED <<walkVars, appVars>>

\* InputField::lines(area)
Lines ==
    /\ pc = "new"
    /\ layout' = lines(input, wrapping, area, overflow_checks)
    /\ pc' = "lines"
    /\ UNCHANGED <<input, wrapping, area, overflow_checks, raw_line, tokens,
                   index, cursor, prev_cursor>>
    /\ UNCHANGED <<walkVars, appVars>>

\* InputField::get_cursor_at(area, i)
GetCursorAt ==
    /\ pc = "new"
    /\ \E i \in Offsets(input) :
          /\ index' = i
          /\ cursor' = get_cursor_at(input, wrapping, area, i, overflow_checks)
    /\ prev_cursor' = None
    /\ pc' = "get_cursor_at"
    /\ UNCHANGED <<input, wrapping, area, overflow_checks, raw_line, tokens,
                   layout>>
    /\ UNCHANGED <<walkVars, appVars>>

\* InputField::get_cursor_at(area, index + 1): the caller moves the cursor
\* one character to the right and asks again
CursorRight ==
    /\ pc = "get_cursor_at"
    /\ index < Len(input) - 1 + MaxPast
    /\ index' = index + 1
    /\ cursor' = get_cursor_at(input, wrapping, area, index + 1,
                               overflow_checks)
    /\ prev_cursor' = Some(cursor)
    /\ UNCHANGED <<input, wrapping, area, overflow_checks, pc, raw_line,
                   tokens, layout>>
    /\ UNCHANGED <<walkVars, appVars>>

\* no call has been made on the field's present contents
NoCallYet ==
    /\ pc' = "new"
    /\ raw_line' = <<>>
    /\ tokens' = NoTokens
    /\ layout' = NoLayout
    /\ index' = 0
    /\ cursor' = NoCursor
    /\ prev_cursor' = None

\* the texts an editing step turns a text into: one character more or one
\* character less
EditedTexts(text) ==
    {Append(text, c) : c \in IF Len(text) < MaxLen THEN Alphabet ELSE {}}
    \cup {SubSeq(text, 1, Len(text) - 1)}

\* InputField::set_input(input)
SetInput ==
    /\ \E text \in EditedTexts(input) : input' = text
    /\ NoCallYet
    /\ UNCHANGED <<wrapping, area, overflow_checks>>
    /\ UNCHANGED <<walkVars, appVars>>

\* InputField::set_wrapping(wrapping)
SetWrapping ==
    /\ \E mode \in WrapModes : wrapping' = mode
    /\ NoCallYet
    /\ UNCHANGED <<input, area, overflow_checks>>
    /\ UNCHANGED <<walkVars, appVars>>

Next ==
    \/ SetInput
    \/ SetWrapping
    \/ Tokenize
    \/ Lines
    \/ GetCursorAt
    \/ CursorRight

Spec == Init /\ [][Next]_vars


\* --------------------------------------------- wrap_words, token by token
\* The same walk as TokenLoop and WrapLine, one token per step, over the
\* one logical line of a text without line separator.
SingleLineTexts == {t \in Texts : \A i \in 1..Len(t) : t[i] # 10}

\* the rectangle in which MultipleText is wrapped past its overlong token
MultipleArea == [x |-> 0, y |-> 0, width |-> 2, height |-> 5]

WalkAreas == Areas \cup {MultipleArea}

WalkInit ==
    /\ input \in SingleLineTexts
    /\ wrapping = "Word"
    /\ area \in WalkAreas
    /\ overflow_checks \in BOOLEAN
    /\ pc = "new"
    /\ raw_line = <<>>
    /\ tokens = NoTokens
    /\ layout = NoLayout
    /\ index = 0
    /\ cursor = NoCursor
    /\ prev_cursor = None
    /\ WalkIdle
    /\ AppIdle

\* `for raw_line in string.lines()` entered: the line is tokenized and the
\* locals are initialised
WrapBegin ==
    /\ pc = "new"
    /\ StrLines(input) # <<>>
    /\ raw_line' = StrLines(input)[1]
    /\ tokens' = tokenize_ascii(StrLines(input)[1])
    /\ token_k' = 0
    /\ wrap_st' = WrapState(<<>>)
    /\ pc' = "wrap_words"
    /\ UNCHANGED <<input, wrapping, area, overflow_checks, layout, index,
                   cursor, prev_cursor>>
    /\ UNCHANGED appVars

\* one pass of `for &(start, end) in &tokens`
WrapToken ==
    /\ pc = "wrap_words"
    /\ token_k < Len(tokens.tokens)
    /\ ~wrap_st.returned
    /\ ~wrap_st.panicked
    /\ wrap_st' = TokenStep(raw_line, wrap_st, tokens.tokens[token_k + 1],
                            area.width, area.height, overflow_checks)
    /\ token_k' = token_k + 1
    /\ UNCHANGED <<input, wrapping, area, overflow_checks, pc, raw_line,
                   tokens, layout, index, cursor, prev_cursor>>
    /\ UNCHANGED appVars

\* the token loop is left: by a return or a panic inside it, or at its end,
\* where the leftovers are pushed; wrap_words returns
WrapEnd ==
    /\ pc = "wrap_words"
    /\ \/ wrap_st.returned
       \/ wrap_st.panicked
       \/ token_k = Len(tokens.tokens)
    /\ wrap_st' =
          IF wrap_st.returned \/ wrap_st.panicked \/ wrap_st.line_start = None
          THEN wrap_st
          ELSE [wrap_st EXCEPT
                  !.result = Append(wrap_st.result,
                                    Slice(raw_line, wrap_st.line_start[1],
                                          wrap_st.line_end))]
    /\ layout' = [panicked |-> wrap_st.panicked,
                  lines |-> IF wrap_st.panicked THEN <<>> ELSE wrap_st'.result]
    /\ pc' = "wrapped"
    /\ UNCHANGED <<input, wrapping, area, overflow_checks, raw_line, tokens,
                   index, cursor, prev_cursor, token_k>>
    /\ UNCHANGED appVars

WalkNext == WrapBegin \/ WrapToken \/ WrapEnd

SpecWalk == WalkInit /\ [][WalkNext]_vars


\* -------------------------------------------------------------------- App
\* App::run alternates terminal.draw and handle_events until `exit`.  The
\* terminal is taken to be at least as large as the edit box, so that the
\* layout gives every area its full size.

\* the characters of the text keys: 'a'
KeyChars == {97}

\* the widget is not used by the App
WidgetIdle ==
    /\ input = <<>>
    /\ wrapping = "Word"
    /\ area = TestArea
    /\ overflow_checks = TRUE
    /\ pc = "new"
    /\ raw_line = <<>>
    /\ tokens = NoTokens
    /\ layout = NoLayout
    /\ index = 0
    /\ cursor = NoCursor
    /\ prev_cursor = None
    /\ WalkIdle

\* App::new, then App::run
AppInit == WidgetIdle /\ AppNew /\ app_pc = "draw"

widgetVars == <<input, wrapping, area, overflow_checks, pc, raw_line, tokens,
                layout, index, cursor, prev_cursor, walkVars>>

\* todo_area and info_area of render_edit_view, relative to the edit box:
\* the rows after the header row, inside a horizontal margin of 1
todo_area == [x |-> 1, y |-> 1, width |-> EditBoxWidth - 2, height |-> 1]
info_area ==
    [x |-> 1, y |-> 3, width |-> EditBoxWidth - 2,
     height |-> EditBoxHeight - 4]

\* the longest prefix of a text, from k characters on, that has at most
\* new_len bytes
RECURSIVE PrefixWithin(_, _, _)
PrefixWithin(value, k, new_len) ==
    IF k < Len(value) /\ ByteLen(SubSeq(value, 1, k + 1)) <= new_len
    THEN PrefixWithin(value, k + 1, new_len)
    ELSE SubSeq(value, 1, k)

\* String::truncate(new_len): nothing for new_len > len, a panic when
\* new_len is not on a character boundary
Truncate(value, new_len) ==
    IF new_len > ByteLen(value)
    THEN [panicked |-> FALSE, value |-> value]
    ELSE LET kept == PrefixWithin(value, 0, new_len)
         IN IF ByteLen(kept) = new_len
            THEN [panicked |-> FALSE, value |-> kept]
            ELSE [panicked |-> TRUE, value |-> value]

\* Input::new(value) and Input::with_value(value): the cursor at the end
InputNew(value) == [value |-> value, cursor |-> Len(value)]
with_value(inp, value) == [value |-> value, cursor |-> Len(value)]

\* Input::visual_cursor: the columns before the cursor, every character
\* of the items and of KeyChars being one column wide
visual_cursor(inp) == inp.cursor

\* `if self.input.value().len() > limit { .. truncate(limit) ..
\* with_value(truncated) }` of render_edit_view
TruncateInput(inp, limit) ==
    IF ByteLen(inp.value) > limit
    THEN LET truncated == Truncate(inp.value, limit)
         IN [panicked |-> truncated.panicked,
             input |-> with_value(inp, truncated.value)]
    ELSE [panicked |-> FALSE, input |-> inp]

\* items.get(editing_index.expect(..)).expect(..) succeeds
EditingItemPresent ==
    editing_index # None /\ editing_index[1] < Len(items)

\* where handle_events leaves the loop of App::run
AfterKey(exits, panic) ==
    IF exits \/ panic # "none" THEN "done" ELSE "draw"

\* render_list_view: the List widget brings the selection into range
RenderListView ==
    /\ selected' = IF Len(items) = 0
                   THEN None
                   ELSE IF selected # None /\ selected[1] >= Len(items)
                   THEN Some(Len(items) - 1)
                   ELSE selected
    /\ UNCHANGED <<app_input, cursor_pos, app_panic>>

\* render_cursor
RenderCursor(inp, a) ==
    IF edit_mode = Some("Insert")
    THEN LET column == visual_cursor(inp) % U16Mod
         IN Some(<<(column % a.width) + a.x,
                   Min(column \div a.width, a.height - 1) + a.y>>)
    ELSE cursor_pos

\* render_edit_view: the expect(..) calls and the truncation of the input
\* to the focused area, in the order the code reaches them, then the cursor
RenderEditView ==
    LET a == IF focus = Some("Todo") THEN todo_area ELSE info_area
        limit == IF focus = Some("Todo")
                 THEN todo_area.width - 1
                 ELSE info_area.width * info_area.height - 1
        truncated == TruncateInput(app_input, limit)
        panic ==
            CASE focus = None -> "expect"
              [] focus = Some("Todo") /\ truncated.panicked -> "char_boundary"
              [] ~EditingItemPresent -> "expect"
              [] focus = Some("Info") /\ truncated.panicked -> "char_boundary"
              [] edit_mode = None -> "expect"
              [] OTHER -> "none"
    IN IF panic # "none"
       THEN /\ app_panic' = panic
            /\ UNCHANGED <<selected, app_input, cursor_pos>>
       ELSE /\ app_input' = truncated.input
            /\ cursor_pos' = RenderCursor(truncated.input, a)
            /\ UNCHANGED <<selected, app_panic>>

\* terminal.draw(|frame| self.draw(frame))
Draw ==
    /\ app_pc = "draw"
    /\ IF view = "List" THEN RenderListView ELSE RenderEditView
    /\ app_pc' = IF app_panic' # "none" THEN "done" ELSE "key"
    /\ UNCHANGED <<items, editing_index, view, focus, edit_mode, exit>>
    /\ UNCHANGED widgetVars

InListView == app_pc = "key" /\ view = "List"

\* List view, 'q': exit
ListQuit ==
    /\ InListView
    /\ exit' = TRUE
    /\ app_pc' = AfterKey(TRUE, "none")
    /\ UNCHANGED <<items, selected, editing_index, view, app_input,
                   cursor_pos, focus, edit_mode, app_panic>>
    /\ UNCHANGED widgetVars

\* ListState::select_next, select_previous, select_first, select_last
select_next(sel) ==
    IF sel = None THEN Some(0)
    ELSE IF sel[1] = UsizeMax THEN sel ELSE Some(sel[1] + 1)
select_previous(sel) ==
    IF sel = None THEN Some(UsizeMax)
    ELSE IF sel[1] = 0 THEN sel ELSE Some(sel[1] - 1)
select_first(sel) == Some(0)
select_last(sel) == Some(UsizeMax)

\* List view, 'j', 'k', 'g', 'G': move the selection
ListSelect ==
    /\ InListView
    /\ \E key \in {"j", "k", "g", "G"} :
          selected' = CASE key = "j" -> select_next(selected)
                        [] key = "k" -> select_previous(selected)
                        [] key = "g" -> select_first(selected)
                        [] key = "G" -> select_last(selected)
    /\ app_pc' = AfterKey(FALSE, "none")
    /\ UNCHANGED <<items, editing_index, view, app_input, cursor_pos, focus,
                   edit_mode, exit, app_panic>>
    /\ UNCHANGED widgetVars

\* List view, 'x': toggle_status
ListToggleStatus ==
    /\ InListView
    /\ IF selected = None
       THEN UNCHANGED <<items, app_panic>>
       ELSE IF selected[1] >= Len(items)
       THEN app_panic' = "index" /\ UNCHANGED items
       ELSE /\ items' = [items EXCEPT ![selected[1] + 1].status =
                            IF @ = "Todo" THEN "Completed" ELSE "Todo"]
            /\ UNCHANGED app_panic
    /\ app_pc' = AfterKey(FALSE, app_panic')
    /\ UNCHANGED <<selected, editing_index, view, app_input, cursor_pos,
                   focus, edit_mode, exit>>
    /\ UNCHANGED widgetVars

\* add_entry with the editor mode left unset
add_entry_edit_mode_Unset == None

\* `self.edit_mode = Some(EditMode::Insert)` of add_entry
add_entry_edit_mode == Some("Insert")

\* List view, 'a': add_entry, with switch_view(View::Edit)
ListAddEntry ==
    /\ InListView
    /\ Len(items) < MaxItems
    /\ items' = Append(items, [status |-> "Todo", todo |-> <<>>,
                               info |-> <<>>])
    /\ app_input' = InputDefault
    /\ selected' = select_last(selected)
    /\ editing_index' = Some(Len(items') - 1)
    /\ view' = "Edit"
    /\ focus' = Some("Todo")
    /\ edit_mode' = add_entry_edit_mode
    /\ app_pc' = AfterKey(FALSE, "none")
    /\ UNCHANGED <<cursor_pos, exit, app_panic>>
    /\ UNCHANGED widgetVars

InEditView == app_pc = "key" /\ view = "Edit"

\* Edit view, Normal mode, 'q': back to the list
EditNormalQuit ==
    /\ InEditView
    /\ edit_mode = Some("Normal")
    /\ view' = "List"
    /\ app_pc' = AfterKey(FALSE, "none")
    /\ UNCHANGED <<items, selected, editing_index, app_input, cursor_pos,
                   focus, edit_mode, exit, app_panic>>
    /\ UNCHANGED widgetVars

\* Edit view, Normal mode, 'i': Insert mode
EditNormalInsert ==
    /\ InEditView
    /\ edit_mode = Some("Normal")
    /\ edit_mode' = Some("Insert")
    /\ app_pc' = AfterKey(FALSE, "none")
    /\ UNCHANGED <<items, selected, editing_index, view, app_input,
                   cursor_pos, focus, exit, app_panic>>
    /\ UNCHANGED widgetVars

\* focus_down and focus_up, each with its switch_focus: the item is looked
\* up first; the input is stored in the field that loses the focus and
\* reloaded from the field that gets it
FocusMove(down) ==
    IF ~EditingItemPresent
    THEN /\ app_panic' = "expect"
         /\ UNCHANGED <<items, app_input, focus>>
    ELSE IF focus = None
    THEN UNCHANGED <<items, app_input, focus, app_panic>>
    ELSE LET i == editing_index[1] + 1
             leaves == IF down THEN "Todo" ELSE "Info"
             target == IF down THEN "Info" ELSE "Todo"
             stored == IF focus = Some(leaves)
                       THEN IF down
                            THEN [items EXCEPT ![i].todo = app_input.value]
                            ELSE [items EXCEPT ![i].info = app_input.value]
                       ELSE items
         IN /\ items' = stored
            /\ app_input' = InputNew(IF down THEN stored[i].info
                                               ELSE stored[i].todo)
            /\ focus' = Some(target)
            /\ UNCHANGED app_panic

\* Edit view, Normal mode, 'j': focus_down
EditFocusDown ==
    /\ InEditView
    /\ edit_mode = Some("Normal")
    /\ FocusMove(TRUE)
    /\ app_pc' = AfterKey(FALSE, app_panic')
    /\ UNCHANGED <<selected, editing_index, view, cursor_pos, edit_mode, exit>>
    /\ UNCHANGED widgetVars

\* Edit view, Normal mode, 'k': focus_up
EditFocusUp ==
    /\ InEditView
    /\ edit_mode = Some("Normal")
    /\ FocusMove(FALSE)
    /\ app_pc' = AfterKey(FALSE, app_panic')
    /\ UNCHANGED <<selected, editing_index, view, cursor_pos, edit_mode, exit>>
    /\ UNCHANGED widgetVars

\* Edit view, Insert mode, Esc: Normal mode
InsertEsc ==
    /\ InEditView
    /\ edit_mode = Some("Insert")
    /\ edit_mode' = Some("Normal")
    /\ app_pc' = AfterKey(FALSE, "none")
    /\ UNCHANGED <<items, selected, editing_index, view, app_input,
                   cursor_pos, focus, exit, app_panic>>
    /\ UNCHANGED widgetVars

\* char::is_alphanumeric on the characters up to U+00FF: the digits and
\* letters of ASCII and the letters, superscripts and fractions of
\* Latin-1.  The tables of the standard library for the characters above
\* U+00FF are left out: no text key types such a character.
IsAlphanumeric ==
    [c \in 0..255 |->
        \/ c \in 48..57 \/ c \in 65..90 \/ c \in 97..122
        \/ c \in {170, 178, 179, 181, 185, 186, 188, 189, 190}
        \/ c \in 192..214 \/ c \in 216..246 \/ c \in 248..255]

\* a key press: its code, the character of a Char code, its modifier
Key(code, ch, modifiers) ==
    [code |-> code, ch |-> ch, modifiers |-> modifiers]

\* the keys pressed in Insert mode other than Esc
InsertKeys ==
    {Key("Char", c, "NONE") : c \in KeyChars}
    \cup {Key(code, 0, "NONE") :
             code \in {"Backspace", "Delete", "Tab", "Left", "Right",
                       "Home", "End"}}
    \cup {Key(code, 0, "CONTROL") : code \in {"Left", "Right", "Delete"}}
    \cup {Key("Char", c, "CONTROL") : c \in {97, 101, 107, 117, 119}}

\* tui_input::backend::crossterm::to_input_request, for these keys
to_input_request(key) ==
    LET plain == key.modifiers = "NONE"
        control == key.modifiers = "CONTROL"
        char == key.code = "Char"
    IN CASE key.code = "Backspace" /\ plain -> "DeletePrevChar"
         [] key.code = "Delete" /\ plain -> "DeleteNextChar"
         [] key.code = "Left" /\ plain -> "GoToPrevChar"
         [] key.code = "Left" /\ control -> "GoToPrevWord"
         [] key.code = "Right" /\ plain -> "GoToNextChar"
         [] key.code = "Right" /\ control -> "GoToNextWord"
         [] char /\ control /\ key.ch = 117 -> "DeleteLine"
         [] char /\ control /\ key.ch = 119 -> "DeletePrevWord"
         [] key.code = "Delete" /\ control -> "DeleteNextWord"
         [] char /\ control /\ key.ch = 107 -> "DeleteTillEnd"
         [] char /\ control /\ key.ch = 97 -> "GoToStart"
         [] key.code = "Home" /\ plain -> "GoToStart"
         [] char /\ control /\ key.ch = 101 -> "GoToEnd"
         [] key.code = "End" /\ plain -> "GoToEnd"
         [] char /\ plain -> "InsertChar"
         [] OTHER -> "None"

\* the index before i down to which the characters are (alnum = TRUE) or
\* are not (alnum = FALSE) alphanumeric: skip_while over chars().rev()
RECURSIVE SkipBack(_, _, _)
SkipBack(value, i, alnum) ==
    IF i > 0 /\ IsAlphanumeric[value[i]] = alnum
    THEN SkipBack(value, i - 1, alnum)
    ELSE i

\* the same forwards: skip_while over chars().skip(i)
RECURSIVE SkipForward(_, _, _)
SkipForward(value, i, alnum) ==
    IF i < Len(value) /\ IsAlphanumeric[value[i + 1]] = alnum
    THEN SkipForward(value, i + 1, alnum)
    ELSE i

\* where GoToPrevWord and GoToNextWord put the cursor
PrevWord(inp) == SkipBack(inp.value, SkipBack(inp.value, inp.cursor, FALSE),
                          TRUE)
NextWord(inp) ==
    SkipForward(inp.value, SkipForward(inp.value, inp.cursor, TRUE), FALSE)

\* value[a..b] in characters (0-based, half open)
Chars(value, a, b) == SubSeq(value, a + 1, b)

\* Input::handle(request); ch is the character of InsertChar
handle(inp, request, ch) ==
    LET value == inp.value
        at == inp.cursor
        len == Len(value)
    IN CASE request = "InsertChar" ->
              [value |-> Chars(value, 0, at) \o <<ch>>
                            \o Chars(value, at, len),
               cursor |-> at + 1]
         [] request = "DeletePrevChar" /\ at > 0 ->
              [value |-> Chars(value, 0, at - 1)
                            \o Chars(value, at, len),
               cursor |-> at - 1]
         [] request = "DeleteNextChar" /\ at < len ->
              [value |-> Chars(value, 0, at)
                            \o Chars(value, at + 1, len),
               cursor |-> at]
         [] request = "GoToPrevChar" /\ at > 0 ->
              [value |-> value, cursor |-> at - 1]
         [] request = "GoToNextChar" /\ at < len ->
              [value |-> value, cursor |-> at + 1]
         [] request = "GoToPrevWord" /\ at > 0 ->
              [value |-> value, cursor |-> PrevWord(inp)]
         [] request = "GoToNextWord" /\ at < len ->
              [value |-> value, cursor |-> NextWord(inp)]
         [] request = "DeleteLine" /\ len > 0 ->
              [value |-> <<>>, cursor |-> 0]
         [] request = "DeletePrevWord" /\ at > 0 ->
              [value |-> Chars(value, 0, PrevWord(inp))
                            \o Chars(value, at, len),
               cursor |-> PrevWord(inp)]
         [] request = "DeleteNextWord" /\ at < len ->
              [value |-> Chars(value, 0, at)
                            \o Chars(value, NextWord(inp), len),
               cursor |-> at]
         [] request = "DeleteTillEnd" ->
              [value |-> Chars(value, 0, at), cursor |-> at]
         [] request = "GoToStart" -> [value |-> value, cursor |-> 0]
         [] request = "GoToEnd" -> [value |-> value, cursor |-> len]
         [] OTHER -> inp

\* Input::handle_event(&Event::Key(key))
handle_event(inp, key) == handle(inp, to_input_request(key), key.ch)

\* Edit view, Insert mode, any key but Esc: self.input.handle_event
InsertHandleEvent ==
    /\ InEditView
    /\ edit_mode = Some("Insert")
    /\ \E key \in InsertKeys :
          LET handled == handle_event(app_input, key)
          IN /\ Len(handled.value) <= MaxInput
             /\ app_input' = handled
    /\ app_pc' = AfterKey(FALSE, "none")
    /\ UNCHANGED <<items, selected, editing_index, view, cursor_pos, focus,
                   edit_mode, exit, app_panic>>
    /\ UNCHANGED widgetVars

\* a key press no arm is bound to (`_ => {}`) in List view or in Normal
\* mode.  handle_edit_key_event unwraps the editor mode before it looks at
\* the key: expect("Expected an editor mode.")
OtherKey ==
    /\ app_pc = "key"
    /\ view = "List" \/ edit_mode \in {None, Some("Normal")}
    /\ app_panic' = IF view = "Edit" /\ edit_mode = None
                    THEN "expect" ELSE "none"
    /\ app_pc' = AfterKey(FALSE, app_panic')
    /\ UNCHANGED <<items, selected, editing_index, view, app_input,
                   cursor_pos, focus, edit_mode, exit>>
    /\ UNCHANGED widgetVars

\* an event that is no key press (a key release, a resize, a focus
\* change): as_key_press_event gives None and handle_events returns
NoKeyPress ==
    /\ app_pc = "key"
    /\ app_pc' = AfterKey(FALSE, "none")
    /\ UNCHANGED <<items, selected, editing_index, view, app_input,
                   cursor_pos, focus, edit_mode, exit, app_panic>>
    /\ UNCHANGED widgetVars

AppNext ==
    \/ Draw
    \/ ListQuit
    \/ ListSelect
    \/ ListToggleStatus
    \/ ListAddEntry
    \/ EditNormalQuit
    \/ EditNormalInsert
    \/ EditFocusDown
    \/ EditFocusUp
    \/ InsertEsc
    \/ InsertHandleEvent
    \/ OtherKey
    \/ NoKeyPress

SpecApp == AppInit /\ [][AppNext]_vars

\* ----------------------------------------------------- notions of the claims
NonDegenerate(a) == a.width >= 1 /\ a.height >= 1

\* the field wraps by words, the mode the claims are about
WordWrap == wrapping = "Word"

HasNewline(text) == \E i \in 1..Len(text) : text[i] = 10

\* the first offset from a on that is not part of a line ending
RECURSIVE SkipLineEndings(_, _)
SkipLineEndings(text, a) ==
    IF a < Len(text)
       /\ \/ text[a + 1] = 10
          \/ (text[a + 1] = 13 /\ a + 1 < Len(text) /\ text[a + 2] = 10)
    THEN SkipLineEndings(text, a + 1)
    ELSE a

\* Where a layout places the character at offset o of the text: physical
\* line k holds the characters that follow those of line k - 1, line endings
\* left out.  Some(<<row, column>>), or None when no line holds it.
RECURSIVE PlacedAt(_, _, _, _, _)
PlacedAt(text, physical, k, a, o) ==
    IF k > Len(physical)
    THEN None
    ELSE LET s == SkipLineEndings(text, a)
             n == Len(physical[k])
         IN IF o >= s /\ o < s + n
            THEN Some(<<k - 1, o - s>>)
            ELSE PlacedAt(text, physical, k + 1, s + n, o)

\* the layout get_cursor_at walks
LayoutOf(text, a) == lines(text, "Word", a, overflow_checks).lines

InsideRect(pos, a) ==
    /\ a.x <= pos.x /\ pos.x < a.x + a.width
    /\ a.y <= pos.y /\ pos.y < a.y + a.height

\* the physical lines joined in order
RECURSIVE Concat(_)
Concat(physical) ==
    IF physical = <<>> THEN <<>> ELSE Head(physical) \o Concat(Tail(physical))

IsPrefix(p, text) == Len(p) <= Len(text) /\ p = SubSeq(text, 1, Len(p))

\* the offset just past the last character a layout holds
RECURSIVE KeptEnd(_, _, _, _)
KeptEnd(text, physical, k, a) ==
    IF k > Len(physical)
    THEN a
    ELSE KeptEnd(text, physical, k + 1,
                 SkipLineEndings(text, a) + Len(physical[k]))

BottomRight(a) ==
    [panicked |-> FALSE, x |-> a.x + a.width - 1, y |-> a.y + a.height - 1]

\* ------------------------------------------------------------------ claims
\* C1: the layout returned by word wrap has at most `height` physical lines,
\* counted over all logical lines together (stated for height >= 1).
C1_LayoutWithinHeight ==
    (pc = "lines" /\ WordWrap /\ area.height >= 1 /\ ~layout.panicked)
        => Len(layout.lines) <= area.height

\* C2: for width >= 1 and height >= 1 every physical line returned by word
\* wrap is at most `width` characters long.
C2_LineWidthBound ==
    (pc = "lines" /\ WordWrap /\ NonDegenerate(area) /\ ~layout.panicked)
        => \A k \in 1..Len(layout.lines) : Len(layout.lines[k]) <= area.width

\* C2 witness: the overlong token "aaa" was hard split into a full chunk
\* and a shorter remainder.
C2_Witness ==
    /\ pc = "lines"
    /\ WordWrap
    /\ input = <<97, 97, 97>>
    /\ area.width = 2
    /\ area.height = 3
    /\ layout = [panicked |-> FALSE, lines |-> << <<97, 97>>, <<97>> >>]

\* C3: the position get_cursor_at returns lies inside the rectangle, for
\* every text and every offset (stated for rectangles that have a cell).
C3_CursorInsideRect ==
    (pc = "get_cursor_at" /\ WordWrap /\ NonDegenerate(area))
        => (~cursor.panicked /\ InsideRect(cursor, area))

\* C4: for an offset whose character the layout places, get_cursor_at
\* returns the cell of that character: the row of the physical line that
\* holds it and its column in that line, offset by the rectangle's origin.
C4_CursorAtPlacedCharacter ==
    (/\ pc = "get_cursor_at"
     /\ WordWrap
     /\ NonDegenerate(area)
     /\ index < Len(input))
        => LET placed == PlacedAt(input, LayoutOf(input, area), 1, 0, index)
           IN placed # None
                => cursor = [panicked |-> FALSE,
                             x |-> area.x + placed[1][2],
                             y |-> area.y + placed[1][1]]

\* C5: every offset at or past the end of a non-empty text gives the
\* position of the last character's offset; an empty text gives the
\* rectangle's origin for every offset.
C5_ClampPastEnd ==
    (pc = "get_cursor_at" /\ index >= Len(input))
        => IF Len(input) = 0
           THEN cursor = [panicked |-> FALSE, x |-> area.x, y |-> area.y]
           ELSE cursor = get_cursor_at(input, wrapping, area, Len(input) - 1,
                                       overflow_checks)

\* C5 witness: the test's query at usize::MAX lands on the final "s".
C5_Witness ==
    /\ pc = "get_cursor_at"
    /\ WordWrap
    /\ input = TestText
    /\ area = TestArea
    /\ index = UsizeMax
    /\ cursor = [panicked |-> FALSE, x |-> 1, y |-> 4]

\* C6: for one logical line, width >= 1 and height >= 1, the physical lines
\* joined in order are a prefix of the line, and the whole line when fewer
\* than `height` lines are returned.
C6_PartitionPrefix ==
    (pc = "lines" /\ WordWrap /\ NonDegenerate(area) /\ ~HasNewline(input))
        => /\ ~layout.panicked
           /\ IsPrefix(Concat(layout.lines), input)
           /\ Len(layout.lines) < area.height => Concat(layout.lines) = input

\* C6 witness: the line "a a" wrapped into two physical lines of width 1
\* and cut short by the height.
C6_Witness ==
    /\ pc = "lines"
    /\ WordWrap
    /\ input = <<97, 32, 97>>
    /\ area.width = 1
    /\ area.height = 2
    /\ layout = [panicked |-> FALSE, lines |-> << <<97>>, <<32>> >>]

\* C7: with width = 0 or height = 0, and for the empty text, word wrap
\* returns the empty layout without failing.
C7_DegenerateGivesEmptyLayout ==
    (/\ pc = "lines"
     /\ WordWrap
     /\ (area.width = 0 \/ area.height = 0 \/ input = <<>>))
        => layout = [panicked |-> FALSE, lines |-> <<>>]

\* C8: moving the offset one to the right inside the text moves the cursor
\* one cell to the right or to the start of the next row; only an offset
\* past what a full layout kept gives the bottom-right cell instead.
C8_CursorStep ==
    (/\ pc = "get_cursor_at"
     /\ WordWrap
     /\ prev_cursor # None
     /\ index < Len(input)
     /\ NonDegenerate(area))
        => LET p == prev_cursor[1]
               physical == LayoutOf(input, area)
           IN \/ cursor = [panicked |-> FALSE, x |-> p.x + 1, y |-> p.y]
              \/ cursor = [panicked |-> FALSE, x |-> area.x, y |-> p.y + 1]
              \/ /\ Len(physical) >= area.height
                 /\ index >= KeptEnd(input, physical, 1, 0)
                 /\ cursor = BottomRight(area)

\* C9: the ranges tokenize_ascii returns partition the line in order, none
\* is empty, each holds characters of one class and neighbours differ in
\* class; the empty line gives no range.
C9_TokensPartitionLine ==
    pc = "tokenize_ascii"
        => LET t == tokens.tokens
               n == Len(t)
           IN /\ ~tokens.panicked
              /\ raw_line = <<>> <=> n = 0
              /\ n > 0 => (t[1][1] = 0 /\ t[n][2] = Len(raw_line))
              /\ \A k \in 1..n :
                    /\ t[k][1] < t[k][2]
                    /\ \A i \in (t[k][1] + 1)..t[k][2] :
                          IsWhitespace(raw_line[i])
                              = IsWhitespace(raw_line[t[k][1] + 1])
              /\ \A k \in 1..(n - 1) :
                    /\ t[k + 1][1] = t[k][2]
                    /\ IsWhitespace(raw_line[t[k][1] + 1])
                           # IsWhitespace(raw_line[t[k + 1][1] + 1])

\* C9 witness: the line " a ", which starts with a blank and has three
\* tokens.
C9_Witness ==
    /\ pc = "tokenize_ascii"
    /\ raw_line = <<32, 97, 32>>
    /\ tokens = [panicked |-> FALSE,
                 tokens |-> << <<0, 1>>, <<1, 2>>, <<2, 3>> >>]

\* C10 as stated: "A wrap occurs" in 5 x 5 gives the lines "A", "wrap",
\* "occur", "s".
C10_TestLinesWithoutBlanks ==
    (pc = "lines" /\ WordWrap /\ input = TestText /\ area = TestArea)
        => layout = [panicked |-> FALSE,
                     lines |-> << <<65>>,
                                  <<119, 114, 97, 112>>,
                                  <<111, 99, 99, 117, 114>>,
                                  <<115>> >>]

\* C10 amended: "A wrap occurs" in 5 x 5 gives the lines "A ", "wrap ",
\* "occur", "s": the blank after a word stays on the word's line.
C10_TestLines ==
    (pc = "lines" /\ WordWrap /\ input = TestText /\ area = TestArea)
        => layout = [panicked |-> FALSE,
                     lines |-> << <<65, 32>>,
                                  <<119, 114, 97, 112, 32>>,
                                  <<111, 99, 99, 117, 114>>,
                                  <<115>> >>]

\* C10 witness: the test's text has been wrapped into the test's rectangle.
C10_Witness ==
    /\ pc = "lines"
    /\ WordWrap
    /\ input = TestText
    /\ area = TestArea
    /\ Len(layout.lines) = 4

\* the number of characters actually on the pending line
PendingLen(st) ==
    IF st.line_start = None THEN 0 ELSE st.line_end - st.line_start[1]

\* C11: within one logical line a token no longer than `width` is appended
\* to the physical line being built whenever the characters actually on
\* that line plus the token's length are at most `width`: no line is pushed
\* before it and the pending span is extended to the token's end.
C11_GreedyFill ==
    [][(/\ pc = "wrap_words"
        /\ token_k' = token_k + 1
        /\ ~wrap_st'.panicked)
          => LET token == tokens.tokens[token_k + 1]
                 token_len == token[2] - token[1]
             IN (/\ token_len <= area.width
                 /\ PendingLen(wrap_st) + token_len <= area.width)
                   => /\ wrap_st'.result = wrap_st.result
                      /\ wrap_st'.line_start =
                            IF wrap_st.line_start = None
                            THEN Some(token[1]) ELSE wrap_st.line_start
                      /\ wrap_st'.line_end = token[2]]_vars

\* C12: after any sequence of key events from App::new, whenever the view
\* is Edit the editor mode, the focus and the editing index are present and
\* the editing index is a valid index into the items; no expect(..) fails.
C12_EditViewFieldsPresent ==
    /\ app_panic # "expect"
    /\ view = "Edit"
          => /\ edit_mode # None
             /\ focus # None
             /\ editing_index # None
             /\ editing_index[1] < Len(items)

\* C12 witness: the second added item is being edited: the Edit view was
\* left and entered again by add_entry, text was typed and stored by a
\* focus switch, and the editor put in Normal mode.
C12_Witness ==
    /\ app_pc = "key"
    /\ view = "Edit"
    /\ Len(items) = 4
    /\ editing_index = Some(3)
    /\ items[4].todo = <<97>>
    /\ focus = Some("Info")
    /\ edit_mode = Some("Normal")

====
